---- MODULE Spec2Model ----
(***************************************************************************)
(* Model of executeToolLoop (sdk/utils/tool-loop.ts): the tool-calling     *)
(* control loop and its message state.  One step of the model is one run   *)
(* of the async function from a suspension point (an await) to the next    *)
(* one, or to its return / rejection.                                      *)
(***************************************************************************)
EXTENDS Integers, Sequences, FiniteSets, TLC

(* ---------------------------------------------------------------- bounds *)
\* largest ceiling (maxToolCalls) a caller passes
MaxCeiling == 3
\* largest number of tool calls in one provider response
MaxBatch == 2
\* the model follows a run only while its transcript is shorter than this;
\* no run of the loop gets there (CapNotBinding)
MaxTranscript == 9

(* ------------------------------------------------------------ JS values *)
Undefined == [t |-> "undefined"]
Null == [t |-> "null"]
Str(s) == [t |-> "string", v |-> s]
Num(n) == [t |-> "number", v |-> n]
Bool(b) == [t |-> "boolean", v |-> b]
\* a plain data object, known by its JSON text
Obj(json) == [t |-> "object", json |-> json]
\* a ToolResponse object {id, name, result}; only .result is ever read
ToolResponse(r) == [t |-> "ToolResponse", result |-> r]
\* an Error instance
Err(m) == [t |-> "Error", message |-> m]

\* typeof x
TypeOf(x) ==
  IF x.t \in {"null", "ToolResponse", "Error"} THEN "object" ELSE x.t

\* JS truthiness, as used by the || operator
Truthy(x) ==
  CASE x.t = "undefined" -> FALSE
    [] x.t = "null" -> FALSE
    [] x.t = "string" -> x.v # ""
    [] x.t = "number" -> x.v # 0
    [] x.t = "boolean" -> x.v
    [] OTHER -> TRUE

\* a || b
Or(a, b) == IF Truthy(a) THEN a ELSE b

\* JSON.stringify(x), for the values the loop can pass to it
Stringify(x) ==
  CASE x.t = "string" -> "\"" \o x.v \o "\""
    [] x.t = "number" -> ToString(x.v)
    [] x.t = "boolean" -> (IF x.v THEN "true" ELSE "false")
    [] x.t = "null" -> "null"
    [] x.t = "object" -> x.json
    [] OTHER -> "{}"

\* String(x)
StringOf(x) ==
  CASE x.t = "string" -> x.v
    [] x.t = "number" -> ToString(x.v)
    [] x.t = "boolean" -> (IF x.v THEN "true" ELSE "false")
    [] x.t = "null" -> "null"
    [] x.t = "undefined" -> "undefined"
    [] OTHER -> "[object Object]"

\* toolResult?.result
ResultOf(toolResult) ==
  IF toolResult.t = "ToolResponse" THEN toolResult.result ELSE Undefined

(* ------------------------------------------------------ input universes *)
Ids == {"id1", "id2"}
Names == {"calc", "time"}
Texts == {"", "txt"}
\* ToolCall {id, name, arguments}: a response may list the same call twice
ToolCalls ==
  { [id |-> "id1", name |-> "calc"],
    [id |-> "id2", name |-> "time"] }

RECURSIVE SeqsUpTo(_, _)
SeqsUpTo(S, n) ==
  IF n = 0 THEN {<<>>}
  ELSE LET shorter == SeqsUpTo(S, n - 1)
       IN shorter \cup {Append(q, e) : q \in {p \in shorter : Len(p) = n - 1}, e \in S}

\* ChatWithToolsResponse: toolCalls is optional
Responses ==
  [text : Texts] \cup [text : Texts, toolCalls : SeqsUpTo(ToolCalls, MaxBatch)]

\* what the caller may pass as options.messages
InitialMessages ==
  { <<>>,
    <<[role |-> "system", content |-> "sys"], [role |-> "user", content |-> "hi"]>> }

\* values onToolCall may resolve with
HandlerValues == { ToolResponse(Str("sunny")) }

\* values onToolCall may reject with (or throw)
HandlerErrors == { Err("boom"), Str("oops") }

\* failures of provider.generateChatWithTools
ProviderErrors == { Err("network") }

\* Tool {name, description, parameters}: the definitions offered to the model
ToolDefinitions == << [name |-> "calc"], [name |-> "time"] >>

(* ----------------------------------------------------------------- state *)
VARIABLES
  maxToolCalls,          \* options.maxToolCalls after defaulting
  onToolCall,            \* TRUE iff options.onToolCall is supplied
  messages,              \* options.messages, the caller's sequence
  pc,                    \* where the async function is suspended
  conversationMessages,  \* the loop's transcript
  toolCallCount,
  maxToolCallsReached,
  finalResponse,
  response,              \* the response whose toolCalls the for loop walks
  idx,                   \* position of the for loop in response.toolCalls
  result,                \* the ToolLoopResult the promise resolved with
  error,                 \* the failure the promise rejected with
  providerCalls,         \* number of generateChatWithTools invocations
  handlerCalls,          \* number of onToolCall invocations
  received,              \* the responses the provider resolved with, in order
  settled,               \* the outcomes of the onToolCall invocations, in order,
                         \* each with its batch number and position in the batch
  tools,                 \* options.tools, handed on to the provider
  given,                 \* the options of the generateChatWithTools calls
                         \* made so far, in order
  ollama,                \* a direct call of the Ollama provider's
                         \* generateChatWithTools: its position, options,
                         \* the HTTP requests it sent and how it settled
  peer                   \* the locals and history of a second invocation of
                         \* executeToolLoop, made with the same provider,
                         \* ceiling and handler

vars == <<maxToolCalls, onToolCall, messages, pc, conversationMessages,
          toolCallCount, maxToolCallsReached, finalResponse, response, idx,
          result, error, providerCalls, handlerCalls, received, settled,
          tools, given, ollama, peer>>

(* ------------------------------------------------------ the loop's tests *)
\* variant: the while loop stops one call early
LoopGuardEarly(cnt, max) == cnt < max - 1

\* while (toolCallCount < maxToolCalls)
LoopGuard(cnt, max) == cnt < max

\* variant: the increment is forgotten
IncrForgotten(cnt) == cnt

\* toolCallCount++
Incr(cnt) == cnt + 1

\* variant: the comparison is strict
CeilingHitStrict(cnt, max) == cnt > max

\* variant: the comparison is one call early
CeilingHitEarly(cnt, max) == cnt >= max - 1

\* variant: the check inside the for loop is missing
CeilingHitMissing(cnt, max) == FALSE

\* if (toolCallCount >= maxToolCalls) inside the for loop
CeilingHit(cnt, max) == cnt >= max

\* variant: the comparison is one call early
ExitCheckEarly(cnt, max) == cnt >= max - 1

\* if (toolCallCount >= maxToolCalls) after the while loop
ExitCheck(cnt, max) == cnt >= max

\* variant: an empty toolCalls list is taken for a request
NoToolCallsOnlyWhenAbsent(r) == "toolCalls" \notin DOMAIN r

\* !response.toolCalls || response.toolCalls.length === 0
NoToolCalls(r) ==
  IF "toolCalls" \in DOMAIN r THEN Len(r.toolCalls) = 0 ELSE TRUE

(* ------------------------------------------------------------- messages *)
\* variant: system messages are left out of the transcript
ConvertInitialWithoutSystem(msgs) == SelectSeq(msgs, LAMBDA m : m.role # "system")

\* messages.map(msg => ({...msg, role: msg.role}))
ConvertInitial(msgs) == [i \in 1..Len(msgs) |-> msgs[i]]

\* variant: the assistant message is pushed without its toolCalls
AssistantMessageNoCalls(r) == [role |-> "assistant", content |-> r.text]

\* the assistant message pushed for a response that requests tools
AssistantMessage(r) ==
  [role |-> "assistant", content |-> r.text, toolCalls |-> r.toolCalls]

\* the tool message pushed in the try block
SuccessMessage(toolResult, toolCall) ==
  [role |-> "tool",
   content |-> IF TypeOf(ResultOf(toolResult)) = "string"
               THEN ResultOf(toolResult).v
               ELSE Stringify(Or(ResultOf(toolResult), Str("Tool executed successfully"))),
   toolCallId |-> toolCall.id,
   toolName |-> toolCall.name]

\* variant: the catch block copies toolName as the try block does
ErrorMessageWithName(e, toolCall) ==
  [role |-> "tool",
   content |-> "Error executing tool " \o toolCall.name \o ": "
               \o (IF e.t = "Error" THEN e.message ELSE StringOf(e)),
   toolCallId |-> toolCall.id,
   toolName |-> toolCall.name]

\* the tool message pushed in the catch block
ErrorMessage(e, toolCall) ==
  [role |-> "tool",
   content |-> "Error executing tool " \o toolCall.name \o ": "
               \o (IF e.t = "Error" THEN e.message ELSE StringOf(e)),
   toolCallId |-> toolCall.id]

\* variant: the internal message is handed out as it is
ResultMessageAsIs(m) == m

\* conversationMessages.map(msg => ({role: tool ? assistant : role, content}))
ResultMessage(m) ==
  [role |-> IF m.role = "tool" THEN "assistant" ELSE m.role, content |-> m.content]

ResultMessages(msgs) == [i \in 1..Len(msgs) |-> ResultMessage(msgs[i])]

(* ------------------------------------------- control flow between awaits *)
\* the local state of one invocation, as a record
Cur ==
  [pc |-> pc, msgs |-> conversationMessages, cnt |-> toolCallCount,
   reached |-> maxToolCallsReached, final |-> finalResponse, resp |-> response,
   idx |-> idx, result |-> result, pcalls |-> providerCalls, hcalls |-> handlerCalls]

\* the statements after the while loop, up to the return
Return(s) ==
  LET reached == IF ExitCheck(s.cnt, maxToolCalls) THEN TRUE ELSE s.reached
  IN [s EXCEPT !.pc = "resolved",
               !.reached = reached,
               !.result = [finalResponse |-> s.final,
                           toolCallCount |-> s.cnt,
                           maxToolCallsReached |-> reached,
                           messages |-> ResultMessages(s.msgs)]]

\* the head of the while loop: call the provider or leave the loop
WhileLoop(s) ==
  IF LoopGuard(s.cnt, maxToolCalls)
  THEN [s EXCEPT !.pc = "awaitProvider", !.pcalls = @ + 1]
  ELSE Return(s)

\* if (maxToolCallsReached) break; else next iteration of the while loop
AfterFor(s) == IF s.reached THEN Return(s) ELSE WhileLoop(s)

\* variant: the batch is walked from its end
CurrentCallReversed(s) == s.resp.toolCalls[Len(s.resp.toolCalls) - s.idx + 1]

\* the toolCall of the current iteration of for (const toolCall of ...)
CurrentCall(s) == s.resp.toolCalls[s.idx]

\* variant: onToolCall is started without being awaited
RECURSIVE ForLoopNoAwait(_)
ForLoopNoAwait(s) ==
  IF s.idx > Len(s.resp.toolCalls) THEN AfterFor(s)
  ELSE LET s1 == [s EXCEPT !.cnt = Incr(@)]
       IN IF CeilingHit(s1.cnt, maxToolCalls)
          THEN AfterFor([s1 EXCEPT !.reached = TRUE])
          ELSE IF onToolCall
               THEN ForLoopNoAwait([s1 EXCEPT !.hcalls = @ + 1, !.idx = @ + 1])
               ELSE ForLoopNoAwait([s1 EXCEPT
                      !.msgs = Append(@, SuccessMessage(Null, CurrentCall(s))),
                      !.idx = @ + 1])

\* variant: without a handler the tool call is counted but nothing is recorded
RECURSIVE ForLoopSkipsWithoutHandler(_)
ForLoopSkipsWithoutHandler(s) ==
  IF s.idx > Len(s.resp.toolCalls) THEN AfterFor(s)
  ELSE LET s1 == [s EXCEPT !.cnt = Incr(@)]
       IN IF CeilingHit(s1.cnt, maxToolCalls)
          THEN AfterFor([s1 EXCEPT !.reached = TRUE])
          ELSE IF onToolCall
               THEN [s1 EXCEPT !.pc = "awaitHandler", !.hcalls = @ + 1]
               ELSE ForLoopSkipsWithoutHandler([s1 EXCEPT !.idx = @ + 1])

\* variant: a call whose id was already met in the batch is passed over
RECURSIVE ForLoopDeduplicates(_)
ForLoopDeduplicates(s) ==
  IF s.idx > Len(s.resp.toolCalls) THEN AfterFor(s)
  ELSE IF \E i \in 1..(s.idx - 1) : s.resp.toolCalls[i].id = CurrentCall(s).id
       THEN ForLoopDeduplicates([s EXCEPT !.idx = @ + 1])
       ELSE LET s1 == [s EXCEPT !.cnt = Incr(@)]
            IN IF CeilingHit(s1.cnt, maxToolCalls)
               THEN AfterFor([s1 EXCEPT !.reached = TRUE])
               ELSE IF onToolCall
                    THEN [s1 EXCEPT !.pc = "awaitHandler", !.hcalls = @ + 1]
                    ELSE ForLoopDeduplicates([s1 EXCEPT
                           !.msgs = Append(@, SuccessMessage(Null, CurrentCall(s))),
                           !.idx = @ + 1])

\* the for loop over response.toolCalls from position s.idx, up to the next
\* await of onToolCall (or through the rest of the function when none comes)
RECURSIVE ForLoop(_)
ForLoop(s) ==
  IF s.idx > Len(s.resp.toolCalls) THEN AfterFor(s)
  ELSE LET s1 == [s EXCEPT !.cnt = Incr(@)]
       IN IF CeilingHit(s1.cnt, maxToolCalls)
          THEN AfterFor([s1 EXCEPT !.reached = TRUE])
          ELSE IF onToolCall
               THEN [s1 EXCEPT !.pc = "awaitHandler", !.hcalls = @ + 1]
               ELSE ForLoop([s1 EXCEPT
                      !.msgs = Append(@, SuccessMessage(Null, CurrentCall(s))),
                      !.idx = @ + 1])

\* variant: a response without text leaves no assistant message
OnResponseSkipsEmptyText(s, r) ==
  LET s0 == [s EXCEPT !.final = r, !.resp = r]
  IN IF NoToolCalls(r) THEN Return(s0)
     ELSE ForLoop([s0 EXCEPT
            !.msgs = IF r.text = "" THEN @ ELSE Append(@, AssistantMessage(r)),
            !.idx = 1])

\* variant: finalResponse is assigned only when the loop ends on the break
OnResponseFinalOnBreak(s, r) ==
  IF NoToolCalls(r) THEN Return([s EXCEPT !.final = r, !.resp = r])
  ELSE ForLoop([s EXCEPT !.resp = r, !.msgs = Append(@, AssistantMessage(r)),
                         !.idx = 1])

\* variant: the final answer is recorded in the transcript too
OnResponseRecordsAnswer(s, r) ==
  LET s0 == [s EXCEPT !.final = r, !.resp = r]
  IN IF NoToolCalls(r)
     THEN Return([s0 EXCEPT
            !.msgs = Append(@, [role |-> "assistant", content |-> r.text])])
     ELSE ForLoop([s0 EXCEPT !.msgs = Append(@, AssistantMessage(r)), !.idx = 1])

\* the body of the while loop after the provider's response has arrived
OnResponse(s, r) ==
  LET s0 == [s EXCEPT !.final = r, !.resp = r]
  IN IF NoToolCalls(r) THEN Return(s0)
     ELSE ForLoop([s0 EXCEPT !.msgs = Append(@, AssistantMessage(r)), !.idx = 1])

\* variant: the tool message replaces the last message instead of following it
OnHandlerSettledOverwrite(s, msg) ==
  ForLoop([s EXCEPT !.msgs = [@ EXCEPT ![Len(@)] = msg], !.idx = @ + 1])

\* the for loop after onToolCall settled and its message msg was built
OnHandlerSettled(s, msg) ==
  ForLoop([s EXCEPT !.msgs = Append(@, msg), !.idx = @ + 1])

\* variant: a failing tool call ends the batch
OnCatchBreak(s, e) ==
  AfterFor([s EXCEPT !.msgs = Append(@, ErrorMessage(e, CurrentCall(s)))])

\* variant: a failing tool call is passed over without a message
OnCatchUnrecorded(s, e) == ForLoop([s EXCEPT !.idx = @ + 1])

\* variant: a failed tool call is not counted toward the ceiling
OnCatchUncounted(s, e) ==
  OnHandlerSettled([s EXCEPT !.cnt = @ - 1], ErrorMessage(e, CurrentCall(s)))

\* the catch block: record the failure, then the next iteration
OnCatch(s, e) == OnHandlerSettled(s, ErrorMessage(e, CurrentCall(s)))

\* variant: tool results are kept from the provider
ProviderOptionsWithoutToolMessages(s) ==
  [messages |-> SelectSeq(s.msgs, LAMBDA m : m.role # "tool"),
   tools |-> tools, maxToolCalls |-> maxToolCalls]

\* {...chatOptions, messages: conversationMessages, maxToolCalls}
ProviderOptions(s) ==
  [messages |-> s.msgs, tools |-> tools, maxToolCalls |-> maxToolCalls]

\* the provider calls made once a step has ended in frame s: the step made
\* a call exactly when it ended at the await of generateChatWithTools
Given(s) ==
  IF s.pcalls > providerCalls THEN Append(given, ProviderOptions(s)) ELSE given

\* write the record back into the variables
Become(s) ==
  /\ pc' = s.pc
  /\ conversationMessages' = s.msgs
  /\ toolCallCount' = s.cnt
  /\ maxToolCallsReached' = s.reached
  /\ finalResponse' = s.final
  /\ response' = s.resp
  /\ idx' = s.idx
  /\ result' = s.result
  /\ providerCalls' = s.pcalls
  /\ handlerCalls' = s.hcalls

\* variant: counter and flag are declared outside the function
FreshCarried(msgs) ==
  [pc |-> "called", msgs |-> <<>>, cnt |-> toolCallCount,
   reached |-> maxToolCallsReached,
   final |-> Undefined, resp |-> Undefined, idx |-> 0, result |-> Undefined,
   pcalls |-> 0, hcalls |-> 0,
   messages |-> msgs, error |-> Undefined, received |-> <<>>, settled |-> <<>>]

\* the locals of an invocation when it is entered with options.messages =
\* msgs, before the first statement; with them the caller's sequence and the
\* invocation's history
Fresh(msgs) ==
  [pc |-> "called", msgs |-> <<>>, cnt |-> 0, reached |-> FALSE,
   final |-> Undefined, resp |-> Undefined, idx |-> 0, result |-> Undefined,
   pcalls |-> 0, hcalls |-> 0,
   messages |-> msgs, error |-> Undefined, received |-> <<>>, settled |-> <<>>]

(* ------------------------------------------------------------------ Init *)
InitWith(maxes, handlers, initials, toolsets) ==
  /\ maxToolCalls \in maxes
  /\ onToolCall \in handlers
  /\ messages \in initials
  /\ pc = "called"
  /\ conversationMessages = <<>>
  /\ toolCallCount = 0
  /\ maxToolCallsReached = FALSE
  /\ finalResponse = Undefined
  /\ response = Undefined
  /\ idx = 0
  /\ result = Undefined
  /\ error = Undefined
  /\ providerCalls = 0
  /\ handlerCalls = 0
  /\ received = <<>>
  /\ settled = <<>>
  /\ tools \in toolsets
  /\ given = <<>>
  /\ ollama = [pc |-> "idle"]
  /\ peer = Fresh(<<>>)

Init == InitWith(-1..MaxCeiling, BOOLEAN, InitialMessages, {ToolDefinitions})

(* --------------------------------------------------------------- actions *)
\* executeToolLoop is entered: runs to the first await or to the return
Enter ==
  /\ pc = "called"
  /\ LET s == WhileLoop([Cur EXCEPT !.msgs = ConvertInitial(messages)])
     IN Become(s) /\ given' = Given(s)
  /\ UNCHANGED <<maxToolCalls, onToolCall, messages, tools, ollama,
                 peer, error,
                 received, settled>>

\* provider.generateChatWithTools resolves with r
ProviderResolves(r) ==
  /\ pc = "awaitProvider"
  /\ Len(conversationMessages) < MaxTranscript
  /\ LET s == OnResponse(Cur, r)
     IN Become(s) /\ given' = Given(s)
  /\ received' = Append(received, r)
  /\ UNCHANGED <<maxToolCalls, onToolCall, messages, tools, ollama,
                 peer, error, settled>>

\* variant: a failed provider call is caught and issued again
ProviderRejectsRetried(e) ==
  /\ pc = "awaitProvider"
  /\ Len(conversationMessages) < MaxTranscript
  /\ error = Undefined
  /\ pc' = "awaitProvider"
  /\ error' = e
  /\ providerCalls' = providerCalls + 1
  /\ UNCHANGED <<maxToolCalls, onToolCall, messages, tools, ollama,
                 peer, conversationMessages,
                 toolCallCount, maxToolCallsReached, finalResponse, response,
                 idx, result, handlerCalls, received, settled>>
  /\ given' = Append(given, ProviderOptions(Cur))

\* provider.generateChatWithTools rejects: nothing catches it
ProviderRejects(e) ==
  /\ pc = "awaitProvider"
  /\ Len(conversationMessages) < MaxTranscript
  /\ pc' = "rejected"
  /\ error' = e
  /\ UNCHANGED <<maxToolCalls, onToolCall, messages, tools, ollama,
                 peer, conversationMessages,
                 toolCallCount, maxToolCallsReached, finalResponse, response,
                 idx, result, providerCalls, handlerCalls, received, settled,
                 given>>

\* onToolCall(toolCall) resolves with v
HandlerResolves(v) ==
  /\ pc = "awaitHandler"
  /\ LET s == OnHandlerSettled(Cur, SuccessMessage(v, CurrentCall(Cur)))
     IN Become(s) /\ given' = Given(s)
  /\ settled' = Append(settled, [toolCall |-> CurrentCall(Cur), kind |-> "resolve",
                                 value |-> v, batch |-> Len(received), pos |-> idx])
  /\ UNCHANGED <<maxToolCalls, onToolCall, messages, tools, ollama,
                 peer, error, received>>

\* onToolCall(toolCall) rejects with (or throws) e
HandlerRejects(e) ==
  /\ pc = "awaitHandler"
  /\ LET s == OnCatch(Cur, e)
     IN Become(s) /\ given' = Given(s)
  /\ settled' = Append(settled, [toolCall |-> CurrentCall(Cur), kind |-> "reject",
                                 value |-> e, batch |-> Len(received), pos |-> idx])
  /\ UNCHANGED <<maxToolCalls, onToolCall, messages, tools, ollama,
                 peer, error, received>>

Next ==
  \/ Enter
  \/ \E r \in Responses : ProviderResolves(r)
  \/ \E e \in ProviderErrors : ProviderRejects(e)
  \/ \E v \in HandlerValues : HandlerResolves(v)
  \/ \E e \in HandlerErrors : HandlerRejects(e)

Spec == Init /\ [][Next]_vars

(* A second specification over a one-tool, one-text universe, with the    *)
(* fairness the runtime gives: every pending provider or handler promise   *)
(* eventually settles and the entered function eventually runs.            *)
LiveToolCalls == { [id |-> "id1", name |-> "calc"] }

LiveResponses ==
  [text : {"txt"}] \cup [text : {"txt"}, toolCalls : SeqsUpTo(LiveToolCalls, MaxBatch)]

InitLive == InitWith(-1..MaxCeiling, BOOLEAN, {<<>>}, {ToolDefinitions})

NextLive ==
  \/ Enter
  \/ \E r \in LiveResponses : ProviderResolves(r)
  \/ \E e \in ProviderErrors : ProviderRejects(e)
  \/ \E v \in {ToolResponse(Str("sunny"))} : HandlerResolves(v)
  \/ \E e \in {Err("boom")} : HandlerRejects(e)

FairSpecLive == InitLive /\ [][NextLive]_vars /\ WF_vars(NextLive)

(* A third specification for what the handler may hand back: a handler is  *)
(* always supplied and resolves with ToolResponse objects whose result     *)
(* ranges over text and non-text values, truthy and falsy.                 *)
ResultValues ==
  { Str("sunny"), Str(""), Num(7), Num(0), Bool(TRUE), Bool(FALSE), Null,
    Obj("{\"temp\":72}") }

RichHandlerValues == { ToolResponse(r) : r \in ResultValues }

InitValues == InitWith(1..MaxCeiling, {TRUE}, {<<>>}, {ToolDefinitions})

NextValues ==
  \/ Enter
  \/ \E r \in LiveResponses : ProviderResolves(r)
  \/ \E e \in ProviderErrors : ProviderRejects(e)
  \/ \E v \in RichHandlerValues : HandlerResolves(v)
  \/ \E e \in {Err("boom")} : HandlerRejects(e)

SpecValues == InitValues /\ [][NextValues]_vars

(* A specification for runs under the ceilings up to the one the usage     *)
(* examples set (maxToolCalls: 5), over the one-tool universe.             *)
ExampleCeiling == 5

InitExample == InitWith(1..ExampleCeiling, BOOLEAN, {<<>>}, {ToolDefinitions})

SpecExample == InitExample /\ [][NextLive]_vars

(* A specification for what options.tools changes: the caller offers no    *)
(* tool or the two definitions; the provider answers as it likes.          *)
InitTools == InitWith(1..MaxCeiling, BOOLEAN, {<<>>}, {<<>>, ToolDefinitions})

SpecTools == InitTools /\ [][NextLive]_vars

(* A specification for a call that leaves maxToolCalls out. The provider   *)
(* asks for one call over and over, in batches short and long, so that the *)
(* counter can reach the default ceiling within the transcript bound.      *)
DefaultMaxToolCalls == 10

\* variant: the default is half the documented one
MaxToolCallsOfHalved(opt) ==
  IF opt = Undefined THEN DefaultMaxToolCalls \div 2 ELSE opt.v

\* const { maxToolCalls = 10 } = options
MaxToolCallsOf(opt) == IF opt = Undefined THEN DefaultMaxToolCalls ELSE opt.v

\* n times the same tool call
Repeated(n) == [i \in 1..n |-> [id |-> "id1", name |-> "calc"]]

DefaultBatches ==
  { 1, DefaultMaxToolCalls - 1, DefaultMaxToolCalls, DefaultMaxToolCalls + 1 }

DefaultResponses ==
  [text : {"txt"}]
    \cup { [text |-> "txt", toolCalls |-> Repeated(n)] : n \in DefaultBatches }

InitDefault ==
  InitWith({MaxToolCallsOf(Undefined)}, BOOLEAN, {<<>>}, {ToolDefinitions})

NextDefault ==
  \/ Enter
  \/ \E r \in DefaultResponses : ProviderResolves(r)
  \/ \E e \in ProviderErrors : ProviderRejects(e)
  \/ \E v \in {ToolResponse(Str("sunny"))} : HandlerResolves(v)
  \/ \E e \in {Err("boom")} : HandlerRejects(e)

SpecDefault == InitDefault /\ [][NextDefault]_vars

(* A fourth specification: a second invocation of executeToolLoop whose     *)
(* steps interleave with those of the first. Every local of the function   *)
(* (conversationMessages, toolCallCount, maxToolCallsReached, finalResponse *)
(* and the loop variables) is declared inside the function body, so the    *)
(* second invocation has its own.                                         *)

\* variant: the counter is declared outside the function
PeerFrameSharedCounter == [peer EXCEPT !.cnt = toolCallCount]

\* the locals the second invocation's steps work on
PeerFrame == peer

\* the second invocation is entered with options.messages = msgs
PeerEnter(msgs) ==
  /\ peer.pc = "called"
  /\ peer' = WhileLoop([Fresh(msgs) EXCEPT !.msgs = ConvertInitial(msgs)])
  /\ UNCHANGED <<maxToolCalls, onToolCall, messages, pc, conversationMessages,
                 toolCallCount, maxToolCallsReached, finalResponse, response,
                 idx, result, error, providerCalls, handlerCalls, received,
                 settled, tools, given, ollama>>

\* the second invocation's own history of a handler outcome
PeerOutcome(kind, v) ==
  [toolCall |-> CurrentCall(peer), kind |-> kind, value |-> v,
   batch |-> Len(peer.received), pos |-> peer.idx]

PeerProviderResolves(r) ==
  /\ peer.pc = "awaitProvider"
  /\ Len(peer.msgs) < MaxTranscript
  /\ peer' = [OnResponse(PeerFrame, r) EXCEPT !.received = Append(@, r)]
  /\ UNCHANGED <<maxToolCalls, onToolCall, messages, pc, conversationMessages,
                 toolCallCount, maxToolCallsReached, finalResponse, response,
                 idx, result, error, providerCalls, handlerCalls, received,
                 settled, tools, given, ollama>>

PeerProviderRejects(e) ==
  /\ peer.pc = "awaitProvider"
  /\ Len(peer.msgs) < MaxTranscript
  /\ peer' = [peer EXCEPT !.pc = "rejected", !.error = e]
  /\ UNCHANGED <<maxToolCalls, onToolCall, messages, pc, conversationMessages,
                 toolCallCount, maxToolCallsReached, finalResponse, response,
                 idx, result, error, providerCalls, handlerCalls, received,
                 settled, tools, given, ollama>>

PeerHandlerResolves(v) ==
  /\ peer.pc = "awaitHandler"
  /\ peer' = [OnHandlerSettled(PeerFrame, SuccessMessage(v, CurrentCall(peer)))
                EXCEPT !.settled = Append(@, PeerOutcome("resolve", v))]
  /\ UNCHANGED <<maxToolCalls, onToolCall, messages, pc, conversationMessages,
                 toolCallCount, maxToolCallsReached, finalResponse, response,
                 idx, result, error, providerCalls, handlerCalls, received,
                 settled, tools, given, ollama>>

PeerHandlerRejects(e) ==
  /\ peer.pc = "awaitHandler"
  /\ peer' = [OnCatch(PeerFrame, e)
                EXCEPT !.settled = Append(@, PeerOutcome("reject", e))]
  /\ UNCHANGED <<maxToolCalls, onToolCall, messages, pc, conversationMessages,
                 toolCallCount, maxToolCallsReached, finalResponse, response,
                 idx, result, error, providerCalls, handlerCalls, received,
                 settled, tools, given, ollama>>

InitTwo == InitWith(0..MaxCeiling, BOOLEAN, {<<>>}, {ToolDefinitions})

NextTwo ==
  \/ Enter
  \/ \E r \in LiveResponses : ProviderResolves(r)
  \/ \E e \in ProviderErrors : ProviderRejects(e)
  \/ \E v \in {ToolResponse(Str("sunny"))} : HandlerResolves(v)
  \/ \E e \in {Err("boom")} : HandlerRejects(e)
  \/ \E msgs \in InitialMessages : PeerEnter(msgs)
  \/ \E r \in LiveResponses : PeerProviderResolves(r)
  \/ \E e \in ProviderErrors : PeerProviderRejects(e)
  \/ \E v \in {ToolResponse(Str("sunny"))} : PeerHandlerResolves(v)
  \/ \E e \in {Err("boom")} : PeerHandlerRejects(e)

SpecTwo == InitTwo /\ [][NextTwo]_vars

(* The Ollama provider's generateChatWithTools, called directly. The call   *)
(* builds the request body, tests maxToolCalls, sends one POST /api/chat   *)
(* and parses the answer; withErrorHandling wraps whatever is thrown.      *)

\* the options a caller may pass: maxToolCalls left out or a number
OllamaOptions ==
  [maxToolCalls : {Undefined} \cup {Num(n) : n \in -2..2},
   messages : { <<>>, <<[role |-> "user", content |-> "hi"]>> },
   tools : { <<>>, ToolDefinitions }]

\* createChatWithToolsRequestBody: tools are sent only when there are some
OllamaRequestBody(opts) ==
  LET body == [messages |-> [i \in 1..Len(opts.messages) |->
                               [role |-> opts.messages[i].role,
                                content |-> opts.messages[i].content]],
               stream |-> FALSE]
      ollamaTools == [i \in 1..Len(opts.tools) |->
                        [type |-> "function",
                         function |-> [name |-> opts.tools[i].name]]]
  IN IF Len(ollamaTools) > 0
     THEN [messages |-> body.messages, stream |-> FALSE, tools |-> ollamaTools]
     ELSE body

\* withErrorHandling: the thrown error is wrapped in a new Error
OllamaWrapped(e) ==
  Err("Failed to generate chat with tools with Ollama: "
      \o (IF e.t = "Error" THEN e.message ELSE "Unknown error"))

\* options.maxToolCalls && options.maxToolCalls < 1
OllamaCeilingInvalid(opts) ==
  Truthy(opts.maxToolCalls) /\ opts.maxToolCalls.v < 1

\* what the HTTP exchange may end in: fetch fails, a status that is not ok,
\* a body that is no chat response, or a chat response
OllamaHttpOutcomes ==
  { [kind |-> "fetchError", error |-> Err("fetch failed")],
    [kind |-> "status", error |-> Err("Ollama API error: 500 Internal Server Error")],
    [kind |-> "invalid", error |-> Err("Invalid response format from Ollama chat API")],
    [kind |-> "chat", content |-> "txt", tool_calls |-> <<>>],
    [kind |-> "chat", content |-> "", tool_calls |-> <<"calc">>] }

\* parseToolsResponse: text, and toolCalls only when there are some; every
\* call gets an id made up on the spot, here id
OllamaParsed(http, id) ==
  LET toolCalls == [i \in 1..Len(http.tool_calls) |->
                      [id |-> id, name |-> http.tool_calls[i]]]
      base == [text |-> http.content, toolCallCount |-> Len(toolCalls),
               maxToolCallsReached |-> FALSE]
  IN IF Len(toolCalls) > 0
     THEN [text |-> base.text, toolCallCount |-> base.toolCallCount,
           maxToolCallsReached |-> FALSE, toolCalls |-> toolCalls]
     ELSE base

\* generateChatWithTools(opts) is called: up to the throw or the request
OllamaCall(opts) ==
  /\ ollama.pc = "idle"
  /\ ollama' =
       LET requestBody == OllamaRequestBody(opts)
       IN IF OllamaCeilingInvalid(opts)
          THEN [pc |-> "rejected", options |-> opts, requests |-> <<>>,
                error |-> OllamaWrapped(Err("maxToolCalls must be at least 1"))]
          ELSE [pc |-> "awaitRequest", options |-> opts,
                requests |-> <<requestBody>>]
  /\ UNCHANGED <<maxToolCalls, onToolCall, messages, pc, conversationMessages,
                 toolCallCount, maxToolCallsReached, finalResponse, response,
                 idx, result, error, providerCalls, handlerCalls, received,
                 settled, tools, given, peer>>

\* the HTTP exchange ends and the call settles
OllamaSettles(http, id) ==
  /\ ollama.pc = "awaitRequest"
  /\ ollama' =
       IF http.kind = "chat"
       THEN [pc |-> "resolved", options |-> ollama.options,
             requests |-> ollama.requests, result |-> OllamaParsed(http, id)]
       ELSE [pc |-> "rejected", options |-> ollama.options,
             requests |-> ollama.requests, error |-> OllamaWrapped(http.error)]
  /\ UNCHANGED <<maxToolCalls, onToolCall, messages, pc, conversationMessages,
                 toolCallCount, maxToolCallsReached, finalResponse, response,
                 idx, result, error, providerCalls, handlerCalls, received,
                 settled, tools, given, peer>>

InitOllama == InitWith({1}, {FALSE}, {<<>>}, {ToolDefinitions})

NextOllama ==
  \/ \E opts \in OllamaOptions : OllamaCall(opts)
  \/ \E http \in OllamaHttpOutcomes, id \in Ids : OllamaSettles(http, id)

SpecOllama == InitOllama /\ [][NextOllama]_vars

(* -------------------------------------------------------------- helpers *)
Done == pc \in {"resolved", "rejected"}

\* the messages the loop appended after the caller's initial ones
Appended == SubSeq(conversationMessages, Len(messages) + 1, Len(conversationMessages))

\* number of tool-role messages the loop appended
ToolMessageCount == Cardinality({i \in 1..Len(Appended) : Appended[i].role = "tool"})

\* the tool-role messages the loop appended, in transcript order
IsToolMessage(m) == m.role = "tool"

ToolMessages == SelectSeq(Appended, IsToolMessage)

\* the tool calls the provider requested so far, batch after batch
RECURSIVE RequestedUpTo(_)
RequestedUpTo(n) ==
  IF n = 0 THEN <<>>
  ELSE RequestedUpTo(n - 1)
       \o (IF NoToolCalls(received[n]) THEN <<>> ELSE received[n].toolCalls)

Requested == RequestedUpTo(Len(received))

\* the transcript cap never blocks a provider response
CapNotBinding == pc = "awaitProvider" => Len(conversationMessages) < MaxTranscript

TypeOK ==
  /\ pc \in {"called", "awaitProvider", "awaitHandler", "resolved", "rejected"}
  /\ toolCallCount \in Nat
  /\ maxToolCallsReached \in BOOLEAN
  /\ providerCalls = Len(received)
                     + (IF pc = "awaitProvider" \/ pc = "rejected" THEN 1 ELSE 0)
  /\ handlerCalls = Len(settled) + (IF pc = "awaitHandler" THEN 1 ELSE 0)

(* ================================================================ claims *)

\* C1: with a ceiling of at least 1 the running tool-call counter never
\* exceeds the ceiling, and neither does the toolCallCount that is returned.
C1_CounterWithinCeiling ==
  maxToolCalls >= 1 =>
    /\ toolCallCount <= maxToolCalls
    /\ (pc = "resolved" => result.toolCallCount <= maxToolCalls)

\* a run that went through two batches and returned a count equal to the ceiling
C1_Witness ==
  /\ pc = "resolved"
  /\ maxToolCalls >= 2
  /\ Len(received) >= 2
  /\ result.toolCallCount = maxToolCalls

\* C2: when the run resolves (ceiling >= 1), maxToolCallsReached is true
\* exactly when the counter reached the ceiling, and it is false whenever the
\* run ended on a response without tool calls.
C2_ReachedIffCounterAtCeiling ==
  (pc = "resolved" /\ maxToolCalls >= 1) =>
    /\ result.maxToolCallsReached <=> (result.toolCallCount >= maxToolCalls)
    /\ NoToolCalls(result.finalResponse) => ~result.maxToolCallsReached

\* a run that executed a tool call and then ended on a response without tool
\* calls, one short of the ceiling
C2_Witness ==
  /\ pc = "resolved"
  /\ maxToolCalls >= 2
  /\ result.toolCallCount = maxToolCalls - 1
  /\ NoToolCalls(result.finalResponse)
  /\ ~result.maxToolCallsReached

\* C3: for every ceiling >= 1, when every provider call and every handler
\* call settles, the run eventually resolves or rejects.
C3_Terminates == [](maxToolCalls >= 1 => <>Done)

\* a run whose provider requested tool calls on every turn, up to the ceiling
C3_Witness ==
  /\ pc = "resolved"
  /\ maxToolCalls >= 2
  /\ Len(received) = maxToolCalls
  /\ \A i \in 1..Len(received) : ~NoToolCalls(received[i])

\* C4: the number of provider calls of a run never exceeds the ceiling
\* (and is zero when the ceiling is below 1).
C4_ProviderCallsWithinCeiling ==
  /\ maxToolCalls >= 1 => providerCalls <= maxToolCalls
  /\ maxToolCalls < 1 => providerCalls = 0

\* a run that made as many provider calls as the ceiling allows
C4_Witness ==
  /\ maxToolCalls >= 2
  /\ providerCalls = maxToolCalls
  /\ Len(received) = maxToolCalls

\* C5: the number of tool-role messages appended during a run, and the number
\* of handler invocations, never exceed the ceiling.
C5_ToolMessagesWithinCeiling ==
  maxToolCalls >= 1 =>
    /\ ToolMessageCount <= maxToolCalls
    /\ handlerCalls <= maxToolCalls

\* a run stopped by the ceiling in the middle of a batch, after tool results
\* were recorded
C5_Witness ==
  /\ pc = "resolved"
  /\ result.maxToolCallsReached
  /\ ToolMessageCount >= 2
  /\ handlerCalls >= 2

\* C6: with a ceiling below 1 the call is rejected as a configuration error
\* and the provider is never invoked.
C6_RejectsCeilingBelowOne ==
  (maxToolCalls < 1 /\ pc # "called") => (pc = "rejected" /\ providerCalls = 0)

\* C7: the toolCallCount returned equals the number of tool calls actually
\* executed, i.e. those for which a tool-role message was recorded; calls
\* dropped because of the ceiling are not counted.
C7_CountEqualsExecuted ==
  pc = "resolved" => result.toolCallCount = ToolMessageCount

\* C8: the tool call on which the counter reaches the ceiling is itself
\* executed before the loop exits: on a forced stop every counted call has its
\* recorded result (and its handler invocation, when a handler is supplied).
C8_CeilingCallExecuted ==
  (pc = "resolved" /\ maxToolCalls >= 1 /\ result.maxToolCallsReached) =>
    /\ ToolMessageCount = result.toolCallCount
    /\ onToolCall => handlerCalls = result.toolCallCount

\* C9: when the first provider response carries no tool calls (absent or
\* empty list) and the ceiling is >= 1, the run makes exactly one provider
\* call, never invokes the handler, and resolves with that response unchanged,
\* toolCallCount = 0 and maxToolCallsReached = false.
C9_NoToolsFirstResponse ==
  (maxToolCalls >= 1 /\ Len(received) >= 1 /\ NoToolCalls(received[1])) =>
    /\ pc = "resolved"
    /\ providerCalls = 1
    /\ Len(received) = 1
    /\ handlerCalls = 0
    /\ result.finalResponse = received[1]
    /\ result.toolCallCount = 0
    /\ result.maxToolCallsReached = FALSE

\* a run over a non-empty initial transcript whose only response has an empty
\* toolCalls list
C9_Witness ==
  /\ pc = "resolved"
  /\ maxToolCalls >= 1
  /\ Len(messages) > 0
  /\ Len(received) = 1
  /\ "toolCalls" \in DOMAIN received[1]
  /\ received[1].toolCalls = <<>>

\* the failure reason the catch block reports for a thrown value e
C10_Reason(e) == IF e.t = "Error" THEN e.message ELSE e.v

\* C10: when the handler rejects or throws for a tool call, the run does not
\* reject: exactly one tool-role message is appended, naming the tool and the
\* reason, with toolCallId = the call's id and no toolName; the loop then goes
\* on with the next tool call of the batch or, after the last one, with the
\* next provider call.
C10_HandlerFailureRecovered ==
  [][ (Len(settled') = Len(settled) + 1 /\ settled'[Len(settled')].kind = "reject") =>
        LET call == response.toolCalls[idx]
            e == settled'[Len(settled')].value
        IN /\ pc' # "rejected"
           /\ error' = Undefined
           /\ conversationMessages' =
                Append(conversationMessages,
                       [role |-> "tool",
                        content |-> "Error executing tool " \o call.name \o ": "
                                    \o C10_Reason(e),
                        toolCallId |-> call.id])
           /\ IF idx < Len(response.toolCalls)
              THEN \/ /\ pc' = "awaitHandler"
                      /\ idx' = idx + 1
                      /\ handlerCalls' = handlerCalls + 1
                   \/ /\ pc' = "resolved"
                      /\ toolCallCount' = maxToolCalls
                      /\ result'.maxToolCallsReached
              ELSE /\ pc' = "awaitProvider"
                   /\ providerCalls' = providerCalls + 1
    ]_vars

\* a handler failure on the last call of a batch, after which the provider is
\* called again
C10_Witness ==
  /\ pc = "awaitProvider"
  /\ Len(settled) >= 1
  /\ settled[Len(settled)].kind = "reject"
  /\ conversationMessages[Len(conversationMessages)].role = "tool"
  /\ "toolName" \notin DOMAIN conversationMessages[Len(conversationMessages)]

\* C11: within one batch, a handler failure for tool call A does not prevent
\* the next tool call B of that batch, when B comes before the ceiling, from
\* having its handler invoked and its own tool-role message recorded.
C11_FailureDoesNotBlockBatch ==
  LET toolMessages == ToolMessages
  IN
  \A k \in 1..Len(settled) :
    LET a == settled[k]
    IN (/\ a.kind = "reject"
        /\ a.pos < Len(received[a.batch].toolCalls)
        /\ k + 1 < maxToolCalls) =>
         IF k = Len(settled)
         THEN /\ pc = "awaitHandler"
              /\ Len(received) = a.batch
              /\ idx = a.pos + 1
              /\ handlerCalls = k + 1
         ELSE /\ settled[k + 1].batch = a.batch
              /\ settled[k + 1].pos = a.pos + 1
              /\ settled[k + 1].toolCall = received[a.batch].toolCalls[a.pos + 1]
              /\ Len(toolMessages) >= k + 1
              /\ toolMessages[k + 1].toolCallId = settled[k + 1].toolCall.id

\* call A of a batch failed and call B after it was executed and recorded
C11_Witness ==
  /\ Len(settled) >= 2
  /\ settled[1].kind = "reject"
  /\ settled[2].kind = "resolve"
  /\ settled[2].batch = settled[1].batch
  /\ Len(ToolMessages) >= 2
  /\ ToolMessages[2].toolCallId = settled[2].toolCall.id
  /\ settled[1].toolCall.id # settled[2].toolCall.id

\* C12: when a provider call rejects, executeToolLoop rejects with that
\* failure: the provider is not called again, no handler is invoked
\* afterwards, and no result is returned.
C12_ProviderFailureIsFatal ==
  [][ /\ (error = Undefined /\ error' # Undefined) =>
           /\ pc = "awaitProvider"
           /\ error' \in ProviderErrors
           /\ pc' = "rejected"
           /\ result' = Undefined
           /\ providerCalls' = providerCalls
           /\ handlerCalls' = handlerCalls
      /\ error # Undefined =>
           /\ pc = "rejected"
           /\ UNCHANGED vars
    ]_vars

\* the second provider call of a run failed, after a tool call was executed
C12_Witness ==
  /\ pc = "rejected"
  /\ error \in ProviderErrors
  /\ result = Undefined
  /\ Len(received) >= 1
  /\ Len(ToolMessages) >= 1
  /\ providerCalls = Len(received) + 1

\* C13: tool-role messages appear in the transcript in the order in which the
\* provider listed the corresponding tool calls, within each batch and across
\* batches, and the handler is invoked in that same order.
C13_OrderPreserved ==
  LET toolMessages == ToolMessages
      requested == Requested
  IN
  /\ Len(toolMessages) <= Len(requested)
  /\ \A i \in 1..Len(toolMessages) :
       /\ toolMessages[i].toolCallId = requested[i].id
       /\ "toolName" \in DOMAIN toolMessages[i] =>
            toolMessages[i].toolName = requested[i].name
  /\ Len(settled) <= Len(requested)
  /\ \A k \in 1..Len(settled) : settled[k].toolCall = requested[k]
  /\ pc = "awaitHandler" => CurrentCall(Cur) = requested[Len(settled) + 1]

\* tool calls with different ids from two successive batches were executed
C13_Witness ==
  /\ Len(received) >= 2
  /\ Len(ToolMessages) >= 2
  /\ Len(settled) >= 2
  /\ ToolMessages[1].toolCallId # ToolMessages[2].toolCallId
  /\ settled[1].batch = 1
  /\ settled[2].batch = 2

\* C14: in every reachable state, each tool-role message appended by the loop
\* carries a toolCallId equal to the id of a tool call listed in an assistant
\* message at an earlier position of the same transcript.
C14_ToolCallIdRefersBack ==
  \A i \in (Len(messages) + 1)..Len(conversationMessages) :
    conversationMessages[i].role = "tool" =>
      \E j \in 1..(i - 1) :
        /\ conversationMessages[j].role = "assistant"
        /\ "toolCalls" \in DOMAIN conversationMessages[j]
        /\ \E c \in 1..Len(conversationMessages[j].toolCalls) :
             conversationMessages[j].toolCalls[c].id = conversationMessages[i].toolCallId

\* a transcript holding a success message and an error message of the loop
C14_Witness ==
  /\ Len(ToolMessages) >= 2
  /\ \E i \in 1..Len(ToolMessages) : "toolName" \in DOMAIN ToolMessages[i]
  /\ \E i \in 1..Len(ToolMessages) : "toolName" \notin DOMAIN ToolMessages[i]

\* p is a prefix of q
C15_IsPrefix(p, q) == Len(p) <= Len(q) /\ \A i \in 1..Len(p) : q[i] = p[i]

\* C15: the transcript is append-only during a run: at every step the
\* transcript before the step is a prefix of the transcript after it.
C15_AppendOnly ==
  [][C15_IsPrefix(conversationMessages, conversationMessages')]_vars

\* a run that appended an assistant message and a tool message after the
\* caller's initial messages, and then a second assistant message
C15_Witness ==
  /\ Len(messages) > 0
  /\ Len(Appended) >= 3
  /\ Appended[1].role = "assistant"
  /\ Appended[2].role = "tool"
  /\ Appended[3].role = "assistant"

\* provider calls issued and not yet settled
C16_PendingProvider ==
  providerCalls - Len(received) - (IF error = Undefined THEN 0 ELSE 1)

\* handler calls issued and not yet settled
C16_PendingHandler == handlerCalls - Len(settled)

\* C16: within one run at most one external call is in flight at any time:
\* no handler call is started while another handler call or a provider call
\* is outstanding, and the provider is not called while a handler call is
\* outstanding.
C16_OneCallInFlight ==
  /\ C16_PendingProvider \in {0, 1}
  /\ C16_PendingHandler \in {0, 1}
  /\ C16_PendingProvider + C16_PendingHandler <= 1
  /\ C16_PendingProvider = 1 <=> pc = "awaitProvider"
  /\ C16_PendingHandler = 1 <=> pc = "awaitHandler"

\* the handler of the second call of a batch is outstanding, the first settled
C16_Witness ==
  /\ pc = "awaitHandler"
  /\ idx = 2
  /\ Len(settled) >= 1
  /\ settled[Len(settled)].batch = Len(received)
  /\ C16_PendingHandler = 1
  /\ C16_PendingProvider = 0

\* C17: every resolved run is either a clean completion (maxToolCallsReached
\* false and a final response without tool calls) or a forced stop
\* (maxToolCallsReached true); a run never resolves with maxToolCallsReached
\* false while its finalResponse still requests tool calls.
C17_CleanOrForced ==
  pc = "resolved" =>
    \/ ~result.maxToolCallsReached /\ NoToolCalls(result.finalResponse)
    \/ result.maxToolCallsReached

\* a clean completion after a batch of two executed tool calls
C17_Witness ==
  /\ pc = "resolved"
  /\ ~result.maxToolCallsReached
  /\ NoToolCalls(result.finalResponse)
  /\ Len(received) = 2
  /\ result.toolCallCount = 2

\* C18: once the counter has reached the ceiling during a batch, no further
\* handler is invoked (the remaining calls of the batch are dropped) and the
\* provider is not called again; the run resolves with the last provider
\* response as finalResponse and maxToolCallsReached = true.
C18_StopAtCeiling ==
  [][ /\ (maxToolCalls >= 1 /\ toolCallCount < maxToolCalls
                            /\ toolCallCount' >= maxToolCalls) =>
           /\ pc' = "resolved"
           /\ handlerCalls' = handlerCalls
           /\ providerCalls' = providerCalls
           /\ Len(ToolMessages') = maxToolCalls - 1
           /\ result'.maxToolCallsReached
           /\ result'.finalResponse = received'[Len(received')]
      /\ pc = "resolved" => UNCHANGED vars
    ]_vars

\* a forced stop in the middle of a batch: a requested call after the one that
\* reached the ceiling was dropped
C18_Witness ==
  /\ pc = "resolved"
  /\ result.maxToolCallsReached
  /\ handlerCalls >= 1
  /\ Len(Requested) > result.toolCallCount
  /\ Len(ToolMessages) = maxToolCalls - 1

\* C19: when no onToolCall handler is supplied the loop does not fail: every
\* tool call processed before the ceiling gets exactly one tool-role message
\* with a placeholder success content and with toolCallId and toolName set to
\* the call's id and name, and the loop goes on to the next provider call.
C19_NoHandlerPlaceholder ==
  LET toolMessages == ToolMessages
      requested == Requested
  IN
  (~onToolCall /\ maxToolCalls >= 1) =>
    /\ handlerCalls = 0
    /\ pc = "rejected" => error \in ProviderErrors
    /\ Len(toolMessages) =
         (IF Len(requested) < maxToolCalls THEN Len(requested) ELSE maxToolCalls - 1)
    /\ \A i \in 1..Len(toolMessages) :
         toolMessages[i] = [role |-> "tool",
                            content |-> "\"Tool executed successfully\"",
                            toolCallId |-> requested[i].id,
                            toolName |-> requested[i].name]
    /\ (/\ Len(received) >= 1
        /\ ~NoToolCalls(received[Len(received)])
        /\ Len(requested) < maxToolCalls) => providerCalls = Len(received) + 1

\* without a handler, a batch of two calls got its two placeholder messages
\* and the provider was called again
C19_Witness ==
  /\ ~onToolCall
  /\ pc = "awaitProvider"
  /\ Len(received) = 1
  /\ Len(ToolMessages) = 2
  /\ providerCalls = 2

\* the serialized (JSON) form of a non-text result value
C20_Serialized(r) ==
  CASE r.t = "number" -> ToString(r.v)
    [] r.t = "boolean" -> (IF r.v THEN "true" ELSE "false")
    [] r.t = "null" -> "null"
    [] r.t = "object" -> r.json

\* C20: when the handler succeeds, the appended tool-role message has
\* toolCallId = the call's id, toolName = the call's name, and content equal
\* to the handler's result when it is text, otherwise to the serialized form
\* of that result, for every result value, falsy ones included.
C20_SuccessContent ==
  \A k \in 1..Len(settled) :
    settled[k].kind = "resolve" =>
      /\ Len(ToolMessages) >= k
      /\ ToolMessages[k] =
           [role |-> "tool",
            content |-> IF settled[k].value.result.t = "string"
                        THEN settled[k].value.result.v
                        ELSE C20_Serialized(settled[k].value.result),
            toolCallId |-> settled[k].toolCall.id,
            toolName |-> settled[k].toolCall.name]

\* C21: the transcript of the result mirrors the loop's transcript, message
\* by message: same length and order, same content, role tool surfaced as
\* assistant, other roles kept, and nothing but role and content is carried
\* (no role tool, no toolCalls, toolCallId or toolName).
C21_ReturnedMirrorsInternal ==
  pc = "resolved" =>
    /\ Len(result.messages) = Len(conversationMessages)
    /\ \A i \in 1..Len(conversationMessages) :
         LET m == conversationMessages[i]
             out == result.messages[i]
         IN /\ out.content = m.content
            /\ (m.role = "tool" => out.role = "assistant")
            /\ (m.role # "tool" => out.role = m.role)
            /\ out.role # "tool"
            /\ DOMAIN out = {"role", "content"}

\* a resolved run whose transcript holds initial messages, an assistant
\* message with tool calls and a tool message
C21_Witness ==
  /\ pc = "resolved"
  /\ Len(messages) > 0
  /\ \E i, j \in 1..Len(conversationMessages) :
       /\ conversationMessages[i].role = "tool"
       /\ "toolName" \in DOMAIN conversationMessages[i]
       /\ "toolCalls" \in DOMAIN conversationMessages[j]

\* what an invocation holds after it ran alone from frame s through the
\* provider responses rs and the handler outcomes hs
RECURSIVE C22_Alone(_, _, _)
C22_Alone(s, rs, hs) ==
  IF s.pc = "awaitProvider" /\ rs # <<>>
  THEN C22_Alone(OnResponse(s, Head(rs)), Tail(rs), hs)
  ELSE IF s.pc = "awaitHandler" /\ hs # <<>>
       THEN C22_Alone(IF Head(hs).kind = "resolve"
                      THEN OnHandlerSettled(s, SuccessMessage(Head(hs).value,
                                                              CurrentCall(s)))
                      ELSE OnCatch(s, Head(hs).value),
                      rs, Tail(hs))
       ELSE s

C22_Entered(msgs) == WhileLoop([Fresh(msgs) EXCEPT !.msgs = ConvertInitial(msgs)])

C22_Same(s, t) ==
  /\ s.msgs = t.msgs
  /\ s.cnt = t.cnt
  /\ s.reached = t.reached
  /\ s.result = t.result

\* C22: when the steps of two invocations interleave, the transcript,
\* counter, ceiling flag and result of each are at every moment what that
\* invocation alone produces from its own initial messages, provider
\* responses and handler outcomes.
C22_RunsIsolated ==
  /\ pc # "called" =>
       C22_Same(Cur, C22_Alone(C22_Entered(messages), received, settled))
  /\ peer.pc # "called" =>
       C22_Same(peer, C22_Alone(C22_Entered(peer.messages), peer.received,
                                peer.settled))

\* both invocations resolved after their steps interleaved, each with tool
\* results of its own and with different counters
C22_Witness ==
  /\ pc = "resolved"
  /\ peer.pc = "resolved"
  /\ Len(settled) > 0
  /\ Len(peer.settled) > 0
  /\ Len(peer.received) > 1
  /\ Len(received) > Len(peer.received)
  /\ toolCallCount # peer.cnt
  /\ messages # peer.messages

\* C23: the transcript of a resolved run begins with the caller's initial
\* messages, in their order, each with its role and content; it is never
\* shorter than the initial sequence.
C23_StartsWithInitial ==
  pc = "resolved" =>
    /\ Len(result.messages) >= Len(messages)
    /\ \A i \in 1..Len(messages) :
         /\ result.messages[i].role = messages[i].role
         /\ result.messages[i].content = messages[i].content

\* a run called with initial messages resolved after appending to them
C23_Witness ==
  /\ pc = "resolved"
  /\ Len(messages) > 0
  /\ Len(result.messages) > Len(messages)
  /\ ToolMessageCount > 0

\* the responses received so far that carry at least one tool call
C24_Batches == SelectSeq(received, LAMBDA r : ~NoToolCalls(r))

\* the positions of the assistant messages among the appended messages
C24_AssistantAt == { i \in 1..Len(Appended) : Appended[i].role = "assistant" }

\* the position of the last assistant message before position i, 0 if none
C24_Opening(i) ==
  LET before == { a \in C24_AssistantAt : a < i }
  IN IF before = {} THEN 0 ELSE CHOOSE a \in before : \A b \in before : b <= a

\* C24: the appended assistant messages are, in order, one per received
\* response with tool calls, each with that response's text and its whole
\* toolCalls list; every tool message stands after the assistant message of
\* its batch, at the position of its call in that list.
C24_OneAssistantPerBatch ==
  LET appended == Appended
      assistantAt == C24_AssistantAt
      batches == C24_Batches
  IN
  /\ Cardinality(assistantAt) = Len(batches)
  /\ \A a \in assistantAt :
       LET k == Cardinality({ b \in assistantAt : b <= a })
       IN /\ appended[a].content = batches[k].text
          /\ "toolCalls" \in DOMAIN appended[a]
          /\ appended[a].toolCalls = batches[k].toolCalls
  /\ \A i \in 1..Len(appended) :
       appended[i].role = "tool" =>
         LET a == C24_Opening(i)
         IN /\ a > 0
            /\ i - a <= Len(appended[a].toolCalls)
            /\ appended[i].toolCallId = appended[a].toolCalls[i - a].id

\* a response without text requested two calls; the second was dropped at
\* the ceiling and is still listed in the assistant message
C24_Witness ==
  /\ pc = "resolved"
  /\ maxToolCallsReached
  /\ Len(received) = 1
  /\ Len(Appended) = 2
  /\ Appended[1].role = "assistant"
  /\ Appended[1].content = ""
  /\ Len(Appended[1].toolCalls) = 2
  /\ Appended[2].role = "tool"

\* C25: every provider call is given the whole transcript of that moment:
\* the first call the initial messages, the pending call the current
\* transcript, and call k+1 the transcript of call k followed by one
\* assistant message and the tool messages of batch k, one per requested call.
C25_WholeTranscriptGiven ==
  /\ Len(given) = providerCalls
  /\ Len(given) > 0 => given[1].messages = messages
  /\ pc = "awaitProvider" => given[Len(given)].messages = conversationMessages
  /\ \A k \in 1..(Len(given) - 1) :
       LET before == given[k].messages
           after == given[k + 1].messages
           batch == SubSeq(after, Len(before) + 1, Len(after))
       IN /\ C15_IsPrefix(before, after)
          /\ Len(batch) = 1 + Len(received[k].toolCalls)
          /\ batch[1] = AssistantMessage(received[k])
          /\ \A j \in 2..Len(batch) :
               /\ batch[j].role = "tool"
               /\ batch[j].toolCallId = received[k].toolCalls[j - 1].id

\* a third provider call is pending after two batches were executed, on top
\* of initial messages
C25_Witness ==
  /\ pc = "awaitProvider"
  /\ Len(given) = 3
  /\ Len(messages) > 0
  /\ Len(given[3].messages) > Len(given[2].messages)

\* C26: a resolved run with ceiling >= 1 made at least one provider call,
\* and its finalResponse is the response of its last provider call. Under
\* ceiling 5, after a first response with one tool call, a successful
\* handler and a second response without tool calls: two provider calls,
\* toolCallCount 1, flag false, finalResponse the second response.
C26_FinalIsLastResponse ==
  pc = "resolved" /\ maxToolCalls >= 1 =>
    /\ providerCalls >= 1
    /\ providerCalls = Len(received)
    /\ result.finalResponse = received[Len(received)]
    /\ ( /\ maxToolCalls = 5
         /\ Len(received) = 2
         /\ ~NoToolCalls(received[1])
         /\ Len(received[1].toolCalls) = 1
         /\ Len(settled) = 1
         /\ settled[1].kind = "resolve"
         /\ NoToolCalls(received[2])
         => /\ providerCalls = 2
            /\ result.toolCallCount = 1
            /\ result.maxToolCallsReached = FALSE
            /\ result.finalResponse = received[2] )

\* the run of the example, resolved
C26_Witness ==
  /\ pc = "resolved"
  /\ maxToolCalls = 5
  /\ Len(received) = 2
  /\ ~NoToolCalls(received[1])
  /\ Len(received[1].toolCalls) = 1
  /\ Len(settled) = 1
  /\ settled[1].kind = "resolve"
  /\ NoToolCalls(received[2])

C28_EmptyToolsSingleCall ==
  tools = <<>> =>
    /\ providerCalls <= 1
    /\ handlerCalls = 0
    /\ ToolMessageCount = 0

\* C28 amended: with no tool offered, a run whose first provider response
\* carries no tool call makes that single provider call and executes no tool
\* call; the tools are handed to the provider as they are.
C28_EmptyToolsNoRequest ==
  /\ \A k \in 1..Len(given) : given[k].tools = tools
  /\ ( /\ tools = <<>>
       /\ Len(received) >= 1
       /\ ("toolCalls" \in DOMAIN received[1] => received[1].toolCalls = <<>>)
       => /\ pc = "resolved"
          /\ providerCalls = 1
          /\ handlerCalls = 0
          /\ ToolMessageCount = 0
          /\ result.toolCallCount = 0 )

\* no tool was offered and the provider answered with an empty toolCalls list
C28_Witness ==
  /\ tools = <<>>
  /\ onToolCall
  /\ pc = "resolved"
  /\ Len(received) = 1
  /\ "toolCalls" \in DOMAIN received[1]
  /\ received[1].toolCalls = <<>>

\* C29: no step changes the sequence a caller passed as options.messages,
\* and an invocation that is entered starts from the initial messages, a
\* counter of 0 and no response, whatever another invocation has done; its
\* flag is set on entry only when the ceiling itself is below 1.
C29_FreshStart ==
  [][ /\ messages' = messages
      /\ (peer.pc # "called" => peer'.messages = peer.messages)
      /\ (peer.pc = "called" /\ peer'.pc # "called" =>
            /\ peer'.cnt = 0
            /\ peer'.msgs = peer'.messages
            /\ peer'.final = Undefined
            /\ (peer'.reached <=> maxToolCalls < 1))
      /\ (pc = "called" /\ pc' # "called" =>
            /\ toolCallCount' = 0
            /\ conversationMessages' = messages
            /\ finalResponse' = Undefined
            /\ (maxToolCallsReached' <=> maxToolCalls < 1)) ]_vars

\* the second invocation has just been entered with messages of its own,
\* after the first one was stopped at the ceiling with tool results recorded
C29_Witness ==
  /\ pc = "resolved"
  /\ maxToolCallsReached
  /\ toolCallCount > 1
  /\ ToolMessageCount > 0
  /\ peer.pc = "awaitProvider"
  /\ peer.received = <<>>
  /\ Len(peer.messages) > 0
  /\ peer.cnt = 0

\* the number of handler invocations among the first j that were made for
\* batch k
C30_InvokedFor(k, j) == Cardinality({ i \in 1..j : settled[i].batch = k })

\* C30: each handler invocation is passed one tool call of the latest
\* response as it stands there; within a batch the invocations take the
\* positions 1, 2, ... in turn, none skipped and none twice, equal calls
\* included; a batch followed by another response was invoked in full; and
\* every invocation has its own tool message.
C30_EachCallOnceAsRequested ==
  LET toolMessages == ToolMessages
  IN
  /\ \A j \in 1..Len(settled) :
       LET e == settled[j]
       IN /\ e.batch \in 1..Len(received)
          /\ e.pos \in 1..Len(received[e.batch].toolCalls)
          /\ e.toolCall = received[e.batch].toolCalls[e.pos]
          /\ e.pos = C30_InvokedFor(e.batch, j)
          /\ (j > 1 => settled[j - 1].batch <= e.batch)
  /\ pc = "awaitHandler" =>
       /\ idx = C30_InvokedFor(Len(received), Len(settled)) + 1
       /\ CurrentCall(Cur) = received[Len(received)].toolCalls[idx]
  /\ onToolCall =>
       /\ \A k \in 1..(Len(received) - 1) :
            C30_InvokedFor(k, Len(settled)) = Len(received[k].toolCalls)
       /\ Len(toolMessages) = Len(settled)
       /\ \A j \in 1..Len(settled) :
            toolMessages[j].toolCallId = settled[j].toolCall.id

\* one batch requested the same call twice: two handler invocations and two
\* tool messages for it
C30_Witness ==
  /\ onToolCall
  /\ Len(settled) = 2
  /\ settled[1].batch = settled[2].batch
  /\ settled[1].toolCall = settled[2].toolCall
  /\ settled[1].pos = 1
  /\ settled[2].pos = 2
  /\ Len(ToolMessages) = 2
  /\ ToolMessages[1].toolCallId = ToolMessages[2].toolCallId

\* C31: a call that leaves maxToolCalls out runs under the ceiling 10: the
\* counter never passes 10, the flag is set exactly when the counter is 10,
\* and a run whose every response requested tool calls resolves only at 10.
C31_DefaultCeilingTen ==
  /\ maxToolCalls = 10
  /\ toolCallCount <= 10
  /\ pc # "called" => (maxToolCallsReached <=> toolCallCount = 10)
  /\ ( /\ pc = "resolved"
       /\ \A k \in 1..Len(received) : ~NoToolCalls(received[k])
       => /\ result.maxToolCallsReached
          /\ result.toolCallCount = 10 )

\* the provider asked for a tool call in each of several responses and the
\* run was stopped with the counter at 10
C31_Witness ==
  /\ pc = "resolved"
  /\ Len(received) > 1
  /\ \A k \in 1..Len(received) : ~NoToolCalls(received[k])
  /\ result.maxToolCallsReached
  /\ result.toolCallCount = 10
  /\ ToolMessageCount = 9

\* C32 as stated: called with a maxToolCalls below 1, zero included, the
\* Ollama provider rejects with the 'maxToolCalls must be at least 1' error
\* and sends no request; otherwise it sends exactly one request.
C32_OllamaRejectsBelowOne ==
  ollama.pc # "idle" =>
    IF ollama.options.maxToolCalls.t = "number"
       /\ ollama.options.maxToolCalls.v < 1
    THEN /\ ollama.pc = "rejected"
         /\ ollama.requests = <<>>
         /\ ollama.error.message =
              "Failed to generate chat with tools with Ollama: "
                \o "maxToolCalls must be at least 1"
    ELSE Len(ollama.requests) = 1

\* the ids of the tool calls requested so far are pairwise distinct
C33_DistinctIds ==
  \A i, j \in 1..Len(Requested) : i # j => Requested[i].id # Requested[j].id

\* the position of the first assistant message after position a, or the
\* position after the end of the appended messages
C33_Closing(a) ==
  LET after == { b \in C24_AssistantAt : b > a }
  IN IF after = {} THEN Len(Appended) + 1
     ELSE CHOOSE b \in after : \A c \in after : b <= c

\* C33: when a provider call after the first is made, and when a run has
\* resolved without reaching the ceiling, every tool call of every appended
\* assistant message has exactly one tool message with its id between that
\* assistant message and the next one, provided the requested ids differ.
C33_EveryCallAnsweredOnce ==
  LET appended == Appended
      assistantAt == C24_AssistantAt
  IN
  ( /\ \/ pc = "awaitProvider" /\ providerCalls > 1
       \/ pc = "resolved" /\ ~maxToolCallsReached
    /\ C33_DistinctIds )
  => \A a \in assistantAt :
       \A n \in 1..Len(appended[a].toolCalls) :
         Cardinality({ i \in (a + 1)..(C33_Closing(a) - 1) :
                         /\ appended[i].role = "tool"
                         /\ appended[i].toolCallId = appended[a].toolCalls[n].id })
           = 1

\* a second provider call is pending after a batch of two calls with
\* different ids, one of which failed
C33_Witness ==
  /\ pc = "awaitProvider"
  /\ providerCalls = 2
  /\ C33_DistinctIds
  /\ Len(Appended) = 3
  /\ Len(Appended[1].toolCalls) = 2
  /\ \E j \in 1..Len(settled) : settled[j].kind = "reject"

\* the position of the last assistant message among the appended messages
C34_LastRequest == CHOOSE a \in C24_AssistantAt : \A b \in C24_AssistantAt : b <= a

\* C34 as stated: a run that resolved with the flag set has a last assistant
\* message with tool calls; the messages after it are the tool messages of
\* the calls before the one on which the counter reached the ceiling, one
\* each and in order, and that call and the calls after it have none.
C34_LastBatchPartlyAnswered ==
  pc = "resolved" /\ result.maxToolCallsReached =>
    /\ C24_AssistantAt # {}
    /\ LET a == C34_LastRequest
           calls == Appended[a].toolCalls
           answered == Len(Appended) - a
       IN /\ answered < Len(calls)
          /\ ToolMessageCount + 1 = maxToolCalls
          /\ \A i \in (a + 1)..Len(Appended) :
               /\ Appended[i].role = "tool"
               /\ Appended[i].toolCallId = calls[i - a].id
          /\ Len(result.messages) = Len(messages) + Len(Appended)

\* C35 as stated: the toolCallCount of a resolved run is the number of tool
\* messages appended, plus one when the flag is set; a run with the flag set
\* has ceiling - 1 tool messages, and under ceiling 1 no handler invocation.
C35_CountIsMessagesPlusFlag ==
  pc = "resolved" =>
    /\ result.toolCallCount
         = ToolMessageCount + (IF result.maxToolCallsReached THEN 1 ELSE 0)
    /\ result.maxToolCallsReached => ToolMessageCount = maxToolCalls - 1
    /\ maxToolCalls = 1 => handlerCalls = 0

\* the roles of a transcript, position by position
C36_Roles(msgs) == [i \in 1..Len(msgs) |-> msgs[i].role]

\* C36: two resolved runs with the same ceiling, handler, initial messages
\* and provider responses, whatever their handler calls succeeded or failed
\* with, have the same toolCallCount and flag, made as many provider and
\* handler calls, and return transcripts of one length with the same roles.
C36_FailureCountsAsSuccess ==
  ( /\ pc = "resolved"
    /\ peer.pc = "resolved"
    /\ peer.messages = messages
    /\ peer.received = received )
  => /\ result.toolCallCount = peer.result.toolCallCount
     /\ result.maxToolCallsReached = peer.result.maxToolCallsReached
     /\ providerCalls = peer.pcalls
     /\ handlerCalls = peer.hcalls
     /\ Len(settled) = Len(peer.settled)
     /\ Len(result.messages) = Len(peer.result.messages)
     /\ C36_Roles(result.messages) = C36_Roles(peer.result.messages)
     /\ C36_Roles(conversationMessages) = C36_Roles(peer.msgs)

\* two runs on the same responses were stopped at the ceiling; every handler
\* call of one succeeded and a handler call of the other failed
C36_Witness ==
  /\ pc = "resolved"
  /\ peer.pc = "resolved"
  /\ peer.messages = messages
  /\ peer.received = received
  /\ maxToolCallsReached
  /\ Len(settled) = 2
  /\ \A j \in 1..Len(settled) : settled[j].kind = "resolve"
  /\ \E j \in 1..Len(peer.settled) : peer.settled[j].kind = "reject"

====
